---------------------------- MODULE Spec2Model ----------------------------
(***************************************************************************)
(* A model of vm/src/builtins/list.rs: the list container (PyList), its    *)
(* sort with the take/swap reentrancy protocol, the equality scans, the    *)
(* protocol tables, comparison/repr and the two list iterators.            *)
(*                                                                         *)
(* One thread runs one list operation at a time (op, pc and its locals).   *)
(* User callbacks invoked by that operation (key functions, comparators,   *)
(* __eq__, __repr__, iterators being drained) and other threads may touch  *)
(* the same container between the operation's critical sections.           *)
(***************************************************************************)
EXTENDS Integers, Sequences, FiniteSets, TLC

\* ------------------------------------------------------------------ bounds
MaxLen == 3         \* longest container drawn for an initial state
MaxHandle == 2      \* element handles are 0 .. MaxHandle
MaxIntf == 2        \* mutations by callbacks / other threads during one operation
MaxOther == 2       \* longest second list (an operand) drawn for an initial state
MaxOperand == 1     \* longest operand of a protocol-table call

\* ------------------------------------------------------------------ values
Handles == 0 .. MaxHandle

\* The payload of a handle: handles 2k and 2k+1 are distinct objects that
\* compare equal (what rich comparison of two elements looks at).
Val(h) == h \div 2

RECURSIVE SeqsUpTo(_)
SeqsUpTo(n) ==
    IF n = 0 THEN {<<>>}
    ELSE LET S == SeqsUpTo(n - 1)
         IN  S \cup {Append(s, h) : s \in {t \in S : Len(t) = n - 1}, h \in Handles}

Front(s) == SubSeq(s, 1, Len(s) - 1)
Last(s) == s[Len(s)]
RemoveAt(s, i) == SubSeq(s, 1, i - 1) \o SubSeq(s, i + 1, Len(s))
InsertAt(s, i, x) == SubSeq(s, 1, i - 1) \o <<x>> \o SubSeq(s, i, Len(s))
Elems(s) == {s[i] : i \in 1 .. Len(s)}
Perms(s) ==
    {[i \in 1 .. Len(s) |-> s[p[i]]] :
        p \in {q \in [1 .. Len(s) -> 1 .. Len(s)] :
                 \A i, j \in 1 .. Len(s) : i # j => q[i] # q[j]}}

\* ------------------------------------------------------------------- state
VARIABLES
    elements,     \* PyList.elements: the container's storage (under the RwLock)
    otherList,    \* the storage of a second list object (an operand)
    op,           \* the list operation the thread is in, or "idle"
    pc,           \* its position
    arg,          \* its arguments
    buf,          \* its local Vec (working buffer / materialized source / result)
    keys,         \* do_sort: the projected keys computed so far
    idx,          \* a scan's index
    sres,         \* sort's local `res`: what do_sort returned
    res,          \* the result kind once pc = "done"
    out,          \* the returned value, as a sequence
    readers,      \* read guards on `elements` the thread holds across steps
    reacquired,   \* the operation asked for the lock while holding it
    pre,          \* history: elements when the operation was called
    preOther,     \* history: otherList when the operation was called
    intf,         \* history: what callbacks / other threads did during the operation
    it,           \* a list iterator: kind, status, position
    itLast,       \* history: the last call on the iterator, or "mutated"
    stopSeen,     \* history: a next call of this iterator reported exhaustion
    itLen0,       \* history: the container's length when the iterator was created
    tblOut,       \* protocol-table call: what the table entry produced
    namedOut      \* protocol-table call: what the named method produces

heap == <<elements, otherList>>
frame == <<op, pc, arg, buf, keys, idx, sres, res, out>>
locks == <<readers, reacquired>>
hist == <<pre, preOther, intf>>
iter == <<it, itLast, stopSeen, itLen0>>
proto == <<tblOut, namedOut>>
vars == <<heap, frame, locks, hist, iter, proto>>

NoArg == [key |-> "none", reverse |-> FALSE, needle |-> 0, other |-> "none",
          cmpop |-> "none", n |-> 0, index |-> <<>>, route |-> "none",
          slice |-> [start |-> <<>>, stop |-> <<>>, step |-> <<>>]]
NoIntf == [n |-> 0, app |-> {}, rem |-> FALSE]
NoIter == [kind |-> "none", status |-> "none", position |-> 0]
NoEv == [ev |-> "none", x |-> 0]

\* A call's outcome: the result kind, the value returned (as a sequence) and
\* the container's elements afterwards.
R(r, v, l) == [res |-> r, out |-> v, l |-> l]

\* The arguments of a table call: a subscript (an integer, or an object that
\* is no index), an optional value (<<>> when absent), an operand, a count,
\* and whether an iterable operand raises.
IntNeedle(i) == [kind |-> "int", i |-> i]
NoCall == [needle |-> IntNeedle(0), value |-> <<>>, other |-> "self", n |-> 0,
           fails |-> FALSE]
NoOut == [table |-> "none", entry |-> "none", args |-> NoCall, r |-> R("none", <<>>, <<>>)]

InitWith(l, o) ==
    /\ elements = l
    /\ otherList = o
    /\ op = "idle" /\ pc = "idle" /\ arg = NoArg
    /\ buf = <<>> /\ keys = <<>> /\ idx = 0 /\ sres = "none"
    /\ res = "none" /\ out = <<>>
    /\ readers = 0 /\ reacquired = FALSE
    /\ pre = <<>> /\ preOther = <<>> /\ intf = NoIntf
    /\ it = NoIter /\ itLast = NoEv /\ stopSeen = FALSE /\ itLen0 = 0
    /\ tblOut = NoOut /\ namedOut = NoOut

\* An operation is called: its frame is set up and the history restarts.
Call(o, a, p) ==
    /\ op = "idle"
    /\ op' = o /\ arg' = a /\ pc' = p
    /\ pre' = elements /\ preOther' = otherList /\ intf' = NoIntf

\* The operation returns r (and the value v).
Done(r, v) == pc' = "done" /\ res' = r /\ out' = v

\* The caller takes the result; the frame is dropped.
Return ==
    /\ pc = "done"
    /\ op' = "idle" /\ pc' = "idle" /\ arg' = NoArg
    /\ buf' = <<>> /\ keys' = <<>> /\ idx' = 0 /\ sres' = "none"
    /\ res' = "none" /\ out' = <<>>
    /\ pre' = <<>> /\ preOther' = <<>> /\ intf' = NoIntf
    /\ reacquired' = FALSE
    /\ UNCHANGED <<heap, readers, iter, proto>>

\* ------------------------------------------------- the simple list methods
\* PyList::append
append(l, x) == Append(l, x)

\* PyList::clear
clear(l) == <<>>

\* PyList::pop on a non-empty list with the default index -1
pop_last(l) == Front(l)

\* What a callback or another thread may do to the container: a method call.
Mutations(l) ==
    {[m |-> "append", x |-> h] : h \in IF Len(l) < MaxLen THEN Handles ELSE {}}
    \cup (IF l # <<>> THEN {[m |-> "pop", x |-> 0], [m |-> "clear", x |-> 0]} ELSE {})

ApplyMut(l, m) ==
    CASE m.m = "append" -> append(l, m.x)
      [] m.m = "pop" -> pop_last(l)
      [] m.m = "clear" -> clear(l)

\* The record of the mutations made during the running operation: how many,
\* and for a sort what was appended and whether anything was taken out.
NoteMut(m) ==
    [n |-> intf.n + 1,
     app |-> IF op = "sort" /\ m.m = "append" THEN intf.app \cup {m.x} ELSE intf.app,
     rem |-> intf.rem \/ (op = "sort" /\ m.m # "append")]

\* The positions at which the operation is inside (or between) user callbacks.
CallbackPcs ==
    {"do_sort_key", "do_sort_cmp", "cmp_elem", "repr_elem", "remove_scan", "ext_pull"}

\* A user callback of the running operation calls a mutating method of the
\* container. With a read guard still held by the operation this is a second
\* acquisition by the same thread: the write can never be granted.
CallbackMutate ==
    /\ pc \in CallbackPcs
    /\ intf.n < MaxIntf
    /\ IF readers > 0
       THEN /\ reacquired' = TRUE
            /\ pc' = "deadlock"
            /\ UNCHANGED <<heap, op, arg, buf, keys, idx, sres, res, out, readers, hist>>
       ELSE /\ \E m \in Mutations(elements) :
                 /\ elements' = ApplyMut(elements, m)
                 /\ intf' = NoteMut(m)
            /\ UNCHANGED <<otherList, frame, locks, pre, preOther>>
    /\ UNCHANGED <<iter, proto>>

\* A user callback of the running operation reads the container (len(l), l[i];
\* for a list that contains itself, the nested repr or comparison of the same
\* list). With a read guard still held by the operation this is a second
\* acquisition by the same thread: the lock grants it, or never does (a writer
\* is queued between the two).
CallbackRead ==
    /\ pc \in CallbackPcs
    /\ readers > 0
    /\ reacquired' = TRUE
    /\ \/ UNCHANGED pc
       \/ pc' = "deadlock"
    /\ UNCHANGED <<heap, op, arg, buf, keys, idx, sres, res, out, readers, hist, iter, proto>>

\* Another thread calls a mutating method of the container between two
\* critical sections of the running operation (it waits while a guard is held).
ThreadMutate ==
    /\ op # "idle" /\ pc \notin {"done", "deadlock"}
    /\ readers = 0
    /\ intf.n < MaxIntf
    /\ \E m \in Mutations(elements) :
          /\ elements' = ApplyMut(elements, m)
          /\ intf' = NoteMut(m)
    /\ UNCHANGED <<otherList, frame, locks, pre, preOther, iter, proto>>

\* -------------------------------------------------------------------- sort
KeyFuncs == {"none", "mod"}

\* key_func.call((x,)): the projected key of x.
key_call(k, x) == IF k = "mod" THEN x % 2 ELSE Val(x)

\* do_sort's `op` and `cmp`: Lt when reverse, Gt otherwise, on the (projected) keys.
cmp(a, b, reverse) == IF reverse THEN a < b ELSE a > b

\* timsort::try_sort_by_gt on <<element, key>> pairs: a stable sort that puts b
\* before a only when gt(a, b).
RECURSIVE try_sort_insert(_, _, _)
try_sort_insert(s, x, reverse) ==
    IF s = <<>> THEN <<x>>
    ELSE IF cmp(Last(s)[2], x[2], reverse)
         THEN Append(try_sort_insert(Front(s), x, reverse), Last(s))
         ELSE Append(s, x)

RECURSIVE try_sort_by_gt(_, _)
try_sort_by_gt(s, reverse) ==
    IF s = <<>> THEN <<>>
    ELSE try_sort_insert(try_sort_by_gt(Front(s), reverse), Last(s), reverse)

\* A do_sort that sorts ascending and turns the result round for reverse.
do_sort_reversing(values, k, reverse) ==
    LET items == [i \in 1 .. Len(values) |-> <<values[i], key_call(k, values[i])>>]
        sorted == try_sort_by_gt(items, FALSE)
        n == Len(values)
    IN  [i \in 1 .. n |-> IF reverse THEN sorted[n + 1 - i][1] ELSE sorted[i][1]]

\* do_sort when no callback fails: pair each value with its key, sort the
\* pairs by key, keep the values.
do_sort(values, k, reverse) ==
    LET items == [i \in 1 .. Len(values) |-> <<values[i], key_call(k, values[i])>>]
        sorted == try_sort_by_gt(items, reverse)
    IN  [i \in 1 .. Len(values) |-> sorted[i][1]]

\* A sort that sorts a copy and leaves the contents in the container meanwhile.
sort_take_copy ==
    /\ \E k \in KeyFuncs, r \in BOOLEAN :
          Call("sort", [NoArg EXCEPT !.key = k, !.reverse = r],
               IF k = "none" \/ elements = <<>> THEN "do_sort_cmp" ELSE "do_sort_key")
    /\ buf' = elements
    /\ keys' = <<>>
    /\ UNCHANGED <<heap, idx, sres, res, out, locks, iter, proto>>

\* sort, line 326: the contents are taken, the container holds [].
sort_take ==
    /\ \E k \in KeyFuncs, r \in BOOLEAN :
          Call("sort", [NoArg EXCEPT !.key = k, !.reverse = r],
               IF k = "none" \/ elements = <<>> THEN "do_sort_cmp" ELSE "do_sort_key")
    /\ buf' = elements
    /\ elements' = <<>>
    /\ keys' = <<>>
    /\ UNCHANGED <<otherList, idx, sres, res, out, locks, iter, proto>>

\* do_sort, lines 520-523: the key function is called on the next element;
\* it returns the key or raises.
do_sort_key ==
    /\ op = "sort" /\ pc = "do_sort_key"
    /\ \/ /\ keys' = Append(keys, key_call(arg.key, buf[Len(keys) + 1]))
          /\ pc' = IF Len(keys) + 1 = Len(buf) THEN "do_sort_cmp" ELSE "do_sort_key"
          /\ UNCHANGED sres
       \/ /\ sres' = "UserError"
          /\ pc' = "sort_swap"
          /\ UNCHANGED keys
    /\ UNCHANGED <<heap, op, arg, buf, idx, res, out, locks, hist, iter, proto>>

\* A do_sort that sorts `values` in place also when a key function is given.
do_sort_cmp_inplace ==
    /\ op = "sort" /\ pc = "do_sort_cmp"
    /\ \/ /\ buf' = do_sort(buf, arg.key, arg.reverse)
          /\ sres' = "Ok"
       \/ /\ Len(buf) >= 2
          /\ sres' = "UserError"
          /\ buf' \in Perms(buf)
    /\ pc' = "sort_swap"
    /\ UNCHANGED <<heap, op, arg, keys, idx, res, out, locks, hist, iter, proto>>

\* do_sort, lines 524-527: the sort proper. Either every comparison returns
\* and the buffer is sorted, or one raises: with a key the pairs were sorted
\* and `values` is untouched, without one `values` is left in whatever order
\* the sort had reached.
do_sort_cmp ==
    /\ op = "sort" /\ pc = "do_sort_cmp"
    /\ \/ /\ buf' = do_sort(buf, arg.key, arg.reverse)
          /\ sres' = "Ok"
       \/ /\ Len(buf) >= 2
          /\ sres' = "UserError"
          /\ buf' \in (IF arg.key = "none" THEN Perms(buf) ELSE {buf})
    /\ pc' = "sort_swap"
    /\ UNCHANGED <<heap, op, arg, keys, idx, res, out, locks, hist, iter, proto>>

\* A sort that reports the modification before the error of do_sort.
sort_result_modified_first(r, leftover) ==
    IF leftover # <<>> THEN "ValueError" ELSE r

\* A sort that reports every mutation made during it, left over or not.
sort_result_any_mutation(r, leftover) ==
    IF r # "Ok" THEN r
    ELSE IF leftover # <<>> \/ intf.n > 0 THEN "ValueError" ELSE "Ok"

\* sort, lines 329-335: the error of do_sort first, then the check of what
\* was left in the container during the sort.
sort_result(r, leftover) ==
    IF r # "Ok" THEN r
    ELSE IF leftover # <<>> THEN "ValueError" ELSE "Ok"

\* A sort that merges what the container held back behind the sorted buffer.
sort_swap_merge ==
    /\ op = "sort" /\ pc = "sort_swap"
    /\ elements' = buf \o elements
    /\ buf' = elements
    /\ Done(sort_result(sres, elements), <<>>)
    /\ UNCHANGED <<otherList, op, arg, keys, idx, sres, locks, hist, iter, proto>>

\* sort, line 328: the buffer is swapped back in; what the container held goes
\* to the local and is dropped with it.
sort_swap ==
    /\ op = "sort" /\ pc = "sort_swap"
    /\ elements' = buf
    /\ buf' = elements
    /\ Done(sort_result(sres, elements), <<>>)
    /\ UNCHANGED <<otherList, op, arg, keys, idx, sres, locks, hist, iter, proto>>

\* ------------------------------------------------------------------ remove
\* Element equality as the scans see it: the same object, or __eq__ says so.
Equal(a, b) == a = b \/ Val(a) = Val(b)

\* remove, line 297: mut_index starts its scan at position 0.
remove_enter ==
    /\ \E v \in Handles : Call("remove", [NoArg EXCEPT !.needle = v], "remove_scan")
    /\ idx' = 0
    /\ UNCHANGED <<heap, buf, keys, sres, res, out, locks, iter, proto>>

\* mut_index, one position: a read guard for the time of the get; past the
\* end the scan finds nothing (line 304); else the element is the needle, or
\* its __eq__ is called without the guard and answers or raises.
remove_scan ==
    /\ op = "remove" /\ pc = "remove_scan"
    /\ IF idx >= Len(elements)
       THEN /\ \/ Done("ValueError", <<>>)
               \/ Done("UserError", <<>>)     \* needle.str(vm)? raised
            /\ UNCHANGED idx
       ELSE \/ /\ Equal(elements[idx + 1], arg.needle)
               /\ pc' = "remove_check"
               /\ UNCHANGED <<idx, res, out>>
            \/ /\ ~Equal(elements[idx + 1], arg.needle)
               /\ idx' = idx + 1
               /\ UNCHANGED <<pc, res, out>>
            \/ /\ elements[idx + 1] # arg.needle
               /\ Done("UserError", <<>>)
               /\ UNCHANGED idx
    /\ UNCHANGED <<heap, op, arg, buf, keys, sres, locks, hist, iter, proto>>

\* remove, line 301: `index < self.borrow_vec().len()`, a guard of its own;
\* outside the range nothing is deleted and remove returns Ok (line 302).
remove_check ==
    /\ op = "remove" /\ pc = "remove_check"
    /\ IF idx < Len(elements)
       THEN pc' = "remove_delete" /\ UNCHANGED <<res, out>>
       ELSE Done("Ok", <<>>)
    /\ UNCHANGED <<heap, op, arg, buf, keys, idx, sres, locks, hist, iter, proto>>

\* A remove that deletes the last element instead of the one found.
remove_delete_last ==
    /\ op = "remove" /\ pc = "remove_delete"
    /\ IF elements # <<>>
       THEN elements' = Front(elements) /\ Done("Ok", <<>>)
       ELSE UNCHANGED elements /\ Done("Panic", <<>>)
    /\ UNCHANGED <<otherList, op, arg, buf, keys, idx, sres, locks, hist, iter, proto>>

\* remove, line 302: `self.borrow_vec_mut().remove(index)`; Vec::remove
\* panics on an index that is no position any more.
remove_delete ==
    /\ op = "remove" /\ pc = "remove_delete"
    /\ IF idx < Len(elements)
       THEN elements' = RemoveAt(elements, idx + 1) /\ Done("Ok", <<>>)
       ELSE UNCHANGED elements /\ Done("Panic", <<>>)
    /\ UNCHANGED <<otherList, op, arg, buf, keys, idx, sres, locks, hist, iter, proto>>

\* ------------------------------------------------------------------ concat
Operands == {"self", "list", "tuple", "iter"}

\* The elements of the operand `other`: the container itself, or the second
\* object (a list, a tuple, or what an iterable yields).
OperandElements(o) == IF o = "self" THEN elements ELSE otherList

\* concat, lines 134-141: the downcast of other, then a copy of self's
\* elements under a read guard.
concat_enter ==
    /\ \E o \in Operands :
          Call("concat", [NoArg EXCEPT !.other = o],
               IF o \in {"self", "list"} THEN "concat_other" ELSE "done")
    /\ IF arg'.other \in {"self", "list"}
       THEN buf' = elements /\ res' = "none"
       ELSE buf' = <<>> /\ res' = "TypeError"
    /\ UNCHANGED <<heap, keys, idx, sres, out, locks, iter, proto>>

\* A concat that appends other's elements to self's own storage.
concat_other_inplace ==
    /\ op = "concat" /\ pc = "concat_other"
    /\ elements' = elements \o OperandElements(arg.other)
    /\ buf' = buf \o OperandElements(arg.other)
    /\ Done("Ok", buf')
    /\ UNCHANGED <<otherList, op, arg, keys, idx, sres, locks, hist, iter, proto>>

\* concat, lines 142-143: other's elements are copied behind, under a read
\* guard of other; the result is a new list.
concat_other ==
    /\ op = "concat" /\ pc = "concat_other"
    /\ buf' = buf \o OperandElements(arg.other)
    /\ Done("Ok", buf')
    /\ UNCHANGED <<heap, op, arg, keys, idx, sres, locks, hist, iter, proto>>

\* ------------------------------------------------- extend, in-place concat
\* extend (line 121) and __iadd__ (line 167): the source is materialized.
\* extract_cloned copies an exact tuple or list under one read guard (lines
\* 349-352); anything else is asked for its iterator, which may raise (354).
ext_enter ==
    /\ \E m \in {"extend", "iadd"}, o \in Operands :
          /\ Len(elements) + Len(OperandElements(o)) <= MaxLen
          /\ Call(m, [NoArg EXCEPT !.other = o], IF o = "iter" THEN "ext_pull" ELSE "ext_append")
          /\ buf' = IF o = "iter" THEN <<>> ELSE OperandElements(o)
    /\ idx' = 0
    /\ UNCHANGED <<heap, keys, sres, res, out, locks, iter, proto>>

\* A materialization that pushes each item onto the container as it comes.
ext_pull_direct ==
    /\ op \in {"extend", "iadd"} /\ pc = "ext_pull"
    /\ IF idx >= Len(otherList)
       THEN pc' = "ext_append" /\ UNCHANGED <<elements, buf, idx, res, out>>
       ELSE \/ /\ elements' = Append(elements, otherList[idx + 1])
               /\ idx' = idx + 1
               /\ UNCHANGED <<buf, pc, res, out>>
            \/ /\ Done("UserError", <<>>)
               /\ UNCHANGED <<elements, buf, idx>>
    /\ UNCHANGED <<otherList, op, arg, keys, sres, locks, hist, iter, proto>>

\* extract_cloned, lines 358-360: the iterator is asked for its next item
\* (user code): it yields one, which goes to the local Vec, raises, or ends.
ext_pull ==
    /\ op \in {"extend", "iadd"} /\ pc = "ext_pull"
    /\ IF idx >= Len(otherList)
       THEN pc' = "ext_append" /\ UNCHANGED <<buf, idx, res, out>>
       ELSE \/ /\ buf' = Append(buf, otherList[idx + 1])
               /\ idx' = idx + 1
               /\ UNCHANGED <<pc, res, out>>
            \/ /\ Done("UserError", <<>>)
               /\ UNCHANGED <<buf, idx>>
    /\ UNCHANGED <<heap, op, arg, keys, sres, locks, hist, iter, proto>>

\* extend, line 122, and __iadd__, line 168: `borrow_vec_mut().append(&mut
\* seq)`, the whole Vec under one write guard.
ext_append ==
    /\ op \in {"extend", "iadd"} /\ pc = "ext_append"
    /\ elements' = elements \o buf
    /\ Done("Ok", <<>>)
    /\ UNCHANGED <<otherList, op, arg, buf, keys, idx, sres, locks, hist, iter, proto>>

\* --------------------------------------------------------- protocol tables
Needles == {IntNeedle(i) : i \in -(MaxLen + 1) .. MaxLen} \cup {[kind |-> "str", i |-> 0]}

\* SliceableSequenceOp::wrap_index: a negative index counts from the end;
\* -1 stands for no position.
wrap_index(i, n) ==
    LET w == IF i < 0 THEN i + n ELSE i
    IN  IF w >= 0 /\ w < n THEN w ELSE -1

\* getitem_by_index / setitem_by_index / delitem_by_index of the slice ops.
getitem_by_index(l, i) ==
    IF wrap_index(i, Len(l)) < 0 THEN R("IndexError", <<>>, l)
    ELSE R("Ok", <<l[wrap_index(i, Len(l)) + 1]>>, l)

setitem_by_index(l, i, v) ==
    IF wrap_index(i, Len(l)) < 0 THEN R("IndexError", <<>>, l)
    ELSE R("Ok", <<>>, [l EXCEPT ![wrap_index(i, Len(l)) + 1] = v])

delitem_by_index(l, i) ==
    IF wrap_index(i, Len(l)) < 0 THEN R("IndexError", <<>>, l)
    ELSE R("Ok", <<>>, RemoveAt(l, wrap_index(i, Len(l)) + 1))

\* SequenceExt::mul: l repeated n times, empty for n <= 0.
RECURSIVE mul(_, _)
mul(l, n) == IF n <= 0 THEN <<>> ELSE l \o mul(l, n - 1)

\* MutObjectSequenceOp::mut_contains with well-behaved __eq__.
mut_contains(l, v) == \E i \in 1 .. Len(l) : Equal(l[i], v)

\* __len__, lines 182-186.
__len__(l) == R("Ok", <<Len(l)>>, l)

\* _getitem, lines 207-215 (integer subscripts; anything else that is no
\* slice is a TypeError of SequenceIndex::try_from_borrowed_object).
_getitem(l, needle) ==
    IF needle.kind = "int" THEN getitem_by_index(l, needle.i)
    ELSE R("TypeError", <<>>, l)

\* __getitem__, lines 217-220.
__getitem__(l, needle) == _getitem(l, needle)

\* A _setitem that puts the value in front of the addressed element.
_setitem_inserting(l, needle, value) ==
    IF needle.kind # "int" THEN R("TypeError", <<>>, l)
    ELSE IF wrap_index(needle.i, Len(l)) < 0 THEN R("IndexError", <<>>, l)
    ELSE R("Ok", <<>>, InsertAt(l, wrap_index(needle.i, Len(l)) + 1, value))

\* _setitem, lines 222-230 (integer subscripts).
_setitem(l, needle, value) ==
    IF needle.kind = "int" THEN setitem_by_index(l, needle.i, value)
    ELSE R("TypeError", <<>>, l)

\* __setitem__, lines 232-240.
__setitem__(l, needle, value) == _setitem(l, needle, value)

\* _delitem, lines 309-314 (integer subscripts).
_delitem(l, needle) ==
    IF needle.kind = "int" THEN delitem_by_index(l, needle.i)
    ELSE R("TypeError", <<>>, l)

\* __delitem__, lines 316-319.
__delitem__(l, subscript) == _delitem(l, subscript)

\* repeat, lines 78-82: a new list.
repeat(l, n) == R("Ok", mul(l, n), l)

\* irepeat, lines 84-87: the same multiplication on the container's storage;
\* returns the container (out: its elements).
irepeat(l, n) == R("Ok", mul(l, n), mul(l, n))

\* __mul__ and __imul__, lines 242-251.
__mul__(l, n) == repeat(l, n)
__imul__(l, n) == irepeat(l, n)

\* The operand of a binary operation on the container l.
OperandOf(l, o) == IF o = "self" THEN l ELSE otherList

\* concat, lines 133-144, with nothing between its two reads.
concat(l, o) ==
    IF o \in {"self", "list"} THEN R("Ok", l \o OperandOf(l, o), l)
    ELSE R("TypeError", <<>>, l)

\* __add__, lines 146-149.
__add__(l, o) == concat(l, o)

\* extract_cloned, lines 344-364, as one step: the operand's elements, or
\* the error of an iterable that raises.
extract_cloned(l, o, fails) ==
    IF o = "iter" /\ fails THEN R("UserError", <<>>, l)
    ELSE R("Ok", OperandOf(l, o), l)

\* inplace_concat, lines 151-159; returns the container (out: its elements).
inplace_concat(l, o, fails) ==
    LET seq == extract_cloned(l, o, fails)
    IN  IF seq.res # "Ok" THEN seq ELSE R("Ok", l \o seq.out, l \o seq.out)

\* __iadd__, lines 161-170.
__iadd__(l, o, fails) ==
    LET seq == extract_cloned(l, o, fails)
    IN  IF seq.res # "Ok" THEN seq ELSE R("Ok", l \o seq.out, l \o seq.out)

\* __contains__, lines 258-261.
__contains__(l, needle) == R("Ok", <<mut_contains(l, needle)>>, l)

MappingEntries == {"length", "subscript", "ass_subscript"}
SequenceEntries == {"length", "concat", "repeat", "item", "ass_item", "contains",
                    "inplace_concat", "inplace_repeat"}

Values == {<<>>} \cup {<<h>> : h \in Handles}

\* The arguments an entry looks at; the others stay at their defaults.
ArgsOf(e) ==
    CASE e \in {"subscript"} -> {[NoCall EXCEPT !.needle = k] : k \in Needles}
      [] e = "ass_subscript" ->
            {[NoCall EXCEPT !.needle = k, !.value = v] : k \in Needles, v \in Values}
      [] e = "item" ->
            {[NoCall EXCEPT !.needle = k] : k \in {x \in Needles : x.kind = "int"}}
      [] e = "ass_item" ->
            {[NoCall EXCEPT !.needle = k, !.value = v] :
                k \in {x \in Needles : x.kind = "int"}, v \in Values}
      [] e = "contains" -> {[NoCall EXCEPT !.value = <<h>>] : h \in Handles}
      [] e = "concat" -> {[NoCall EXCEPT !.other = o] : o \in Operands}
      [] e = "inplace_concat" ->
            {[NoCall EXCEPT !.other = o, !.fails = f] : o \in Operands, f \in BOOLEAN}
      [] e \in {"repeat", "inplace_repeat"} -> {[NoCall EXCEPT !.n = n] : n \in -1 .. 2}
      [] OTHER -> {NoCall}

\* An ass_subscript that assigns the absent value's default instead of deleting.
mapping_ass_subscript_always_set(l, needle, value) ==
    _setitem(l, needle, IF value # <<>> THEN value[1] ELSE 0)

\* AS_MAPPING.ass_subscript, lines 407-414.
mapping_ass_subscript(l, needle, value) ==
    IF value # <<>> THEN _setitem(l, needle, value[1]) ELSE _delitem(l, needle)

\* AS_MAPPING, lines 402-415.
as_mapping(e, l, a) ==
    CASE e = "length" -> __len__(l)
      [] e = "subscript" -> _getitem(l, a.needle)
      [] e = "ass_subscript" -> mapping_ass_subscript(l, a.needle, a.value)

\* AS_SEQUENCE.ass_item, lines 439-446.
sequence_ass_item(l, i, value) ==
    IF value # <<>> THEN setitem_by_index(l, i, value[1]) ELSE delitem_by_index(l, i)

\* AS_SEQUENCE, lines 422-459.
as_sequence(e, l, a) ==
    CASE e = "length" -> __len__(l)
      [] e = "concat" -> concat(l, a.other)
      [] e = "repeat" -> repeat(l, a.n)
      [] e = "item" -> getitem_by_index(l, a.needle.i)
      [] e = "ass_item" -> sequence_ass_item(l, a.needle.i, a.value)
      [] e = "contains" -> R("Ok", <<mut_contains(l, a.value[1])>>, l)
      [] e = "inplace_concat" -> inplace_concat(l, a.other, a.fails)
      [] e = "inplace_repeat" -> irepeat(l, a.n)

\* The named method an entry of either table stands for, on the same
\* arguments: a present value is an assignment, an absent one a deletion.
named_method(e, l, a) ==
    CASE e = "length" -> __len__(l)
      [] e \in {"subscript", "item"} -> __getitem__(l, a.needle)
      [] e \in {"ass_subscript", "ass_item"} ->
            IF a.value # <<>> THEN __setitem__(l, a.needle, a.value[1])
            ELSE __delitem__(l, a.needle)
      [] e = "concat" -> __add__(l, a.other)
      [] e = "repeat" -> __mul__(l, a.n)
      [] e = "contains" -> __contains__(l, a.value[1])
      [] e = "inplace_concat" -> __iadd__(l, a.other, a.fails)
      [] e = "inplace_repeat" -> __imul__(l, a.n)

\* The runtime calls an entry of the mapping table on the container.
mapping_call ==
    /\ op = "idle" /\ tblOut = NoOut
    /\ \E e \in MappingEntries : \E a \in ArgsOf(e) :
          /\ Len(as_mapping(e, elements, a).l) <= MaxLen
          /\ tblOut' = [table |-> "mapping", entry |-> e, args |-> a,
                        r |-> as_mapping(e, elements, a)]
          /\ namedOut' = [table |-> "mapping", entry |-> e, args |-> a,
                          r |-> named_method(e, elements, a)]
          /\ elements' = as_mapping(e, elements, a).l
    /\ pre' = elements
    /\ UNCHANGED <<otherList, frame, locks, preOther, intf, iter>>

\* The runtime calls an entry of the sequence table on the container.
sequence_call ==
    /\ op = "idle" /\ tblOut = NoOut
    /\ \E e \in SequenceEntries : \E a \in ArgsOf(e) :
          /\ Len(as_sequence(e, elements, a).l) <= MaxLen
          /\ tblOut' = [table |-> "sequence", entry |-> e, args |-> a,
                        r |-> as_sequence(e, elements, a)]
          /\ namedOut' = [table |-> "sequence", entry |-> e, args |-> a,
                          r |-> named_method(e, elements, a)]
          /\ elements' = as_sequence(e, elements, a).l
    /\ pre' = elements
    /\ UNCHANGED <<otherList, frame, locks, preOther, intf, iter>>

\* The table call has returned.
table_return ==
    /\ tblOut # NoOut
    /\ tblOut' = NoOut /\ namedOut' = NoOut
    /\ pre' = <<>>
    /\ UNCHANGED <<heap, frame, locks, preOther, intf, iter>>

\* ---------------------------------------------------------- indexed access
\* The integers drawn for an index: every position, every negative position,
\* and one past either end.
Indices == -(MaxLen + 1) .. MaxLen

\* A pop that takes its index as it is, without counting from the end.
pop_unnormalized(l, i) ==
    LET j == IF i = <<>> THEN -1 ELSE i[1]
    IN  IF l = <<>> THEN R("IndexError", <<>>, l)
        ELSE IF j < 0 \/ j >= Len(l) THEN R("IndexError", <<>>, l)
        ELSE R("Ok", <<l[j + 1]>>, RemoveAt(l, j + 1))

\* pop, lines 279-293, under one write guard: the index defaults to -1, a
\* negative one has the length added; an empty list or a position outside
\* the list is an IndexError, else the element is removed and returned.
pop(l, i) ==
    LET i0 == IF i = <<>> THEN -1 ELSE i[1]
        j == IF i0 < 0 THEN i0 + Len(l) ELSE i0
    IN  IF l = <<>> THEN R("IndexError", <<>>, l)
        ELSE IF j < 0 \/ j >= Len(l) THEN R("IndexError", <<>>, l)
        ELSE R("Ok", <<l[j + 1]>>, RemoveAt(l, j + 1))

\* A call of pop, with or without an index.
pop_call ==
    /\ \E i \in {<<>>} \cup {<<k>> : k \in Indices} :
          /\ Call("pop", [NoArg EXCEPT !.index = i], "done")
          /\ elements' = pop(elements, i).l
          /\ res' = pop(elements, i).res
          /\ out' = pop(elements, i).out
    /\ UNCHANGED <<otherList, buf, keys, idx, sres, locks, iter, proto>>

\* The two ways to an indexed assignment: the named method and the
\* sequence table's ass_item.
Routes == {"__setitem__", "ass_item"}

\* A call of setitem(i, v) by either route; sres keeps its result.
setitem_call ==
    /\ \E rt \in Routes, i \in Indices, v \in Handles :
          LET r == IF rt = "__setitem__" THEN __setitem__(elements, IntNeedle(i), v)
                   ELSE sequence_ass_item(elements, i, <<v>>)
          IN  /\ Call("setitem", [NoArg EXCEPT !.index = <<i>>, !.needle = v, !.route = rt],
                       "getitem")
              /\ elements' = r.l
              /\ sres' = r.res
    /\ UNCHANGED <<otherList, buf, keys, idx, res, out, locks, iter, proto>>

\* The getitem(i) that follows, by the same route.
getitem_call ==
    /\ op = "setitem" /\ pc = "getitem"
    /\ LET r == IF arg.route = "__setitem__"
                 THEN __getitem__(elements, IntNeedle(arg.index[1]))
                 ELSE as_sequence("item", elements,
                                  [NoCall EXCEPT !.needle = IntNeedle(arg.index[1])])
       IN  Done(r.res, r.out)
    /\ UNCHANGED <<heap, op, arg, buf, keys, idx, sres, locks, hist, iter, proto>>

\* --------------------------------------------------------- slice assignment
\* The slices drawn: each bound absent or an integer, the step absent or one
\* of 1, -1, 2, -2.
SliceBounds == {<<>>} \cup {<<i>> : i \in Indices}
SliceSteps == {<<>>, <<1>>, <<-1>>, <<2>>, <<-2>>}
Slices == [start : SliceBounds, stop : SliceBounds, step : SliceSteps]

\* One bound of a slice brought into the list: a negative one counts from the
\* end, one outside is clamped to the end of the traversal on its side.
adjust_bound(b, step, n, default) ==
    IF b = <<>> THEN default
    ELSE LET x == IF b[1] < 0 THEN b[1] + n ELSE b[1]
         IN  IF x < 0 THEN (IF step < 0 THEN -1 ELSE 0)
             ELSE IF x >= n THEN (IF step < 0 THEN n - 1 ELSE n)
             ELSE x

\* Slice normalization (SaturatedSlice::adjust_indices): the effective start,
\* stop and step over a list of length n.
adjust_indices(sl, n) ==
    LET step == IF sl.step = <<>> THEN 1 ELSE sl.step[1]
    IN  [start |-> adjust_bound(sl.start, step, n, IF step < 0 THEN n - 1 ELSE 0),
         stop |-> adjust_bound(sl.stop, step, n, IF step < 0 THEN -1 ELSE n),
         step |-> step]

\* The positions (from 0) a slice addresses, in traversal order.
slice_positions(sl, n) ==
    LET a == adjust_indices(sl, n)
        len == IF a.step > 0
               THEN (IF a.start < a.stop THEN (a.stop - a.start - 1) \div a.step + 1 ELSE 0)
               ELSE (IF a.stop < a.start THEN (a.start - a.stop - 1) \div (-a.step) + 1 ELSE 0)
    IN  [k \in 1 .. len |-> a.start + (k - 1) * a.step]

\* setitem_by_slice: with step 1 the span is replaced by the items, whatever
\* their number; with another step the items go to the addressed positions,
\* and a different number of items is a ValueError before anything is written.
setitem_by_slice(l, sl, items) ==
    LET a == adjust_indices(sl, Len(l))
        P == slice_positions(sl, Len(l))
    IN  IF a.step = 1
        THEN R("Ok", <<>>, SubSeq(l, 1, a.start) \o items
                              \o SubSeq(l, a.start + Len(P) + 1, Len(l)))
        ELSE IF Len(P) # Len(items) THEN R("ValueError", <<>>, l)
        ELSE R("Ok", <<>>,
               [j \in 1 .. Len(l) |->
                   IF \E k \in 1 .. Len(P) : P[k] + 1 = j
                   THEN items[CHOOSE k \in 1 .. Len(P) : P[k] + 1 = j]
                   ELSE l[j]])

\* _setitem with a slice, lines 225-227: the value is materialized by
\* extract_cloned before the write guard is taken.
setslice_enter ==
    /\ op = "idle"
    /\ \E sl \in Slices, o \in Operands :
          /\ Call("setitem_slice", [NoArg EXCEPT !.slice = sl, !.other = o],
                  IF o = "iter" THEN "ext_pull" ELSE "setslice_write")
          /\ buf' = IF o = "iter" THEN <<>> ELSE OperandElements(o)
    /\ idx' = 0
    /\ UNCHANGED <<heap, keys, sres, res, out, locks, iter, proto>>

\* A materialization that pushes each item onto the container as it comes.
setslice_pull_direct ==
    /\ op = "setitem_slice" /\ pc = "ext_pull"
    /\ IF idx >= Len(otherList)
       THEN pc' = "setslice_write" /\ UNCHANGED <<elements, buf, idx, res, out>>
       ELSE \/ /\ elements' = Append(elements, otherList[idx + 1])
               /\ idx' = idx + 1
               /\ UNCHANGED <<buf, pc, res, out>>
            \/ /\ Done("UserError", <<>>)
               /\ UNCHANGED <<elements, buf, idx>>
    /\ UNCHANGED <<otherList, op, arg, keys, sres, locks, hist, iter, proto>>

\* extract_cloned, lines 358-360, for the slice's value: the iterator yields
\* an item, which goes to the local Vec, raises, or ends.
setslice_pull ==
    /\ op = "setitem_slice" /\ pc = "ext_pull"
    /\ IF idx >= Len(otherList)
       THEN pc' = "setslice_write" /\ UNCHANGED <<buf, idx, res, out>>
       ELSE \/ /\ buf' = Append(buf, otherList[idx + 1])
               /\ idx' = idx + 1
               /\ UNCHANGED <<pc, res, out>>
            \/ /\ Done("UserError", <<>>)
               /\ UNCHANGED <<buf, idx>>
    /\ UNCHANGED <<heap, op, arg, keys, sres, locks, hist, iter, proto>>

\* _setitem, line 227: `self.borrow_vec_mut().setitem_by_slice(vm, slice, &sec)`.
setslice_write ==
    /\ op = "setitem_slice" /\ pc = "setslice_write"
    /\ elements' = setitem_by_slice(elements, arg.slice, buf).l
    /\ Done(setitem_by_slice(elements, arg.slice, buf).res, <<>>)
    /\ UNCHANGED <<otherList, op, arg, buf, keys, idx, sres, locks, hist, iter, proto>>

\* ------------------------------------------------------------- comparison
CmpOps == {"Eq", "Ne", "Lt", "Le", "Gt", "Ge"}
\* PyComparisonOp applied to two integers (payloads, or lengths).
eval_ord(o, x, y) ==
    CASE o = "Eq" -> x = y
      [] o = "Ne" -> x # y
      [] o = "Lt" -> x < y
      [] o = "Le" -> x <= y
      [] o = "Gt" -> x > y
      [] o = "Ge" -> x >= y

Min(x, y) == IF x < y THEN x ELSE y

\* cmp, lines 480-484: the identity fast path (Eq and Ne only), the class
\* check, then `let a = &*zelf.borrow_vec()`: the guard lives to the end of cmp.
cmp_enter ==
    /\ \E o \in Operands, c \in CmpOps :
          Call("cmp", [NoArg EXCEPT !.other = o, !.cmpop = c],
               IF o = "self" /\ c \in {"Eq", "Ne"} THEN "done"
               ELSE IF o # "list" /\ o # "self" THEN "done" ELSE "cmp_borrow_other")
    /\ IF arg'.other = "self" /\ arg'.cmpop \in {"Eq", "Ne"}
       THEN res' = "Ok" /\ out' = <<arg'.cmpop = "Eq">> /\ UNCHANGED readers
       ELSE IF arg'.other # "list" /\ arg'.other # "self"
            THEN res' = "NotImplemented" /\ out' = <<>> /\ UNCHANGED readers
            ELSE res' = "none" /\ out' = <<>> /\ readers' = readers + 1
    /\ UNCHANGED <<heap, buf, keys, idx, sres, reacquired, iter, proto>>

\* cmp, line 485: `let b = &*other.borrow_vec()`, with the guard of line 484
\* alive. When other is zelf the thread asks for the lock it holds.
cmp_borrow_other ==
    /\ op = "cmp" /\ pc = "cmp_borrow_other"
    /\ idx' = 0
    /\ IF arg.other = "self"
       THEN /\ reacquired' = TRUE
            /\ \/ /\ readers' = readers + 1
                  /\ pc' = IF elements = <<>> THEN "cmp_len" ELSE "cmp_elem"
               \/ /\ pc' = "deadlock"
                  /\ UNCHANGED readers
       ELSE /\ pc' = IF Min(Len(elements), Len(otherList)) = 0
                     THEN "cmp_len" ELSE "cmp_elem"
            /\ UNCHANGED <<readers, reacquired>>
    /\ UNCHANGED <<heap, op, arg, buf, keys, sres, res, out, hist, iter, proto>>

\* richcompare, one pair: the elements' own rich comparison is called (user
\* code) with the guards of lines 484-485 alive. Equal pairs go on, the first
\* differing pair decides, a raising comparison propagates.
cmp_elem ==
    /\ op = "cmp" /\ pc = "cmp_elem"
    /\ LET a == elements[idx + 1]
           b == OperandElements(arg.other)[idx + 1]
           n == Min(Len(elements), Len(OperandElements(arg.other)))
       IN  \/ /\ Val(a) = Val(b)
              /\ idx' = idx + 1
              /\ pc' = IF idx + 1 < n THEN "cmp_elem" ELSE "cmp_len"
              /\ UNCHANGED <<res, out, readers>>
           \/ /\ Val(a) # Val(b)
              /\ Done("Ok", <<eval_ord(arg.cmpop, Val(a), Val(b))>>)
              /\ readers' = 0
              /\ UNCHANGED idx
           \/ /\ Done("UserError", <<>>)
              /\ readers' = 0
              /\ UNCHANGED idx
    /\ UNCHANGED <<heap, op, arg, buf, keys, sres, reacquired, hist, iter, proto>>

\* A richcompare that takes a list and its strict prefix for equal.
cmp_len_ignored ==
    /\ op = "cmp" /\ pc = "cmp_len"
    /\ Done("Ok", <<eval_ord(arg.cmpop, 0, 0)>>)
    /\ readers' = 0
    /\ UNCHANGED <<heap, op, arg, buf, keys, idx, sres, reacquired, hist, iter, proto>>

\* richcompare, no differing pair: the lengths decide. The guards are dropped
\* when cmp returns.
cmp_len ==
    /\ op = "cmp" /\ pc = "cmp_len"
    /\ Done("Ok", <<eval_ord(arg.cmpop, Len(elements), Len(OperandElements(arg.other)))>>)
    /\ readers' = 0
    /\ UNCHANGED <<heap, op, arg, buf, keys, idx, sres, reacquired, hist, iter, proto>>

\* -------------------------------------------------------------------- repr
\* repr_str, lines 495-497: `zelf.__len__() == 0` takes and drops a read
\* guard; an empty list is "[]" (out holds the elements rendered).
repr_enter ==
    /\ Call("repr", NoArg, IF elements = <<>> THEN "done" ELSE "repr_borrow")
    /\ res' = IF elements = <<>> THEN "Ok" ELSE "none"
    /\ UNCHANGED <<heap, buf, keys, idx, sres, out, locks, iter, proto>>

\* repr_str, line 498: `zelf.borrow_vec().iter()`: the guard is a temporary of
\* the statement and lives until collection_repr has returned.
repr_borrow ==
    /\ op = "repr" /\ pc = "repr_borrow"
    /\ readers' = readers + 1
    /\ idx' = 0
    /\ pc' = IF elements = <<>> THEN "repr_end" ELSE "repr_elem"
    /\ UNCHANGED <<heap, op, arg, buf, keys, sres, res, out, reacquired, hist, iter, proto>>

\* collection_repr, one element: its repr is called (user code) with the
\* guard of line 498 alive; it returns a string or raises.
repr_elem ==
    /\ op = "repr" /\ pc = "repr_elem"
    /\ \/ /\ buf' = Append(buf, elements[idx + 1])
          /\ idx' = idx + 1
          /\ pc' = IF idx + 1 < Len(elements) THEN "repr_elem" ELSE "repr_end"
          /\ UNCHANGED <<res, out, readers>>
       \/ /\ Done("UserError", <<>>)
          /\ readers' = 0
          /\ UNCHANGED <<buf, idx>>
    /\ UNCHANGED <<heap, op, arg, keys, sres, reacquired, hist, iter, proto>>

\* repr_str, lines 498-502: collection_repr returns, the guard is dropped.
repr_end ==
    /\ op = "repr" /\ pc = "repr_end"
    /\ Done("Ok", buf)
    /\ readers' = 0
    /\ UNCHANGED <<heap, op, arg, buf, keys, idx, sres, reacquired, hist, iter, proto>>

\* --------------------------------------------------------------- iterators
\* PositionIterInternal::new
new_iter(kind, position) == [kind |-> kind, status |-> "active", position |-> position]

\* An iterator whose exhaustion does not stick: it yields again as soon as the
\* closure finds an element.
iter_step_reactivate(i, ret) ==
    IF ret = <<>> THEN [i EXCEPT !.status = "exhausted"]
    ELSE IF i.kind = "fwd" THEN [i EXCEPT !.status = "active", !.position = @ + 1]
    ELSE IF i.position = 0 THEN [i EXCEPT !.status = "exhausted"]
    ELSE [i EXCEPT !.status = "active", !.position = @ - 1]

\* PositionIterInternal::next / rev_next around the closure's result `ret`
\* (<<x>> for an element, <<>> for none): an exhausted iterator stays so and
\* does not look at the container; an active one yields and moves its cursor,
\* or becomes exhausted and keeps its cursor.
iter_step(i, ret) ==
    IF i.status # "active" \/ ret = <<>> THEN [i EXCEPT !.status = "exhausted"]
    ELSE IF i.kind = "fwd" THEN [i EXCEPT !.position = @ + 1]
    ELSE IF i.position = 0 THEN [i EXCEPT !.status = "exhausted"]
    ELSE [i EXCEPT !.position = @ - 1]

iter_ret(i, ret) == IF i.status # "active" THEN <<>> ELSE ret

\* PositionIterInternal::length_hint: what is left after the cursor.
length_hint(i, len) ==
    IF i.status # "active" THEN 0
    ELSE IF len > i.position THEN len - i.position ELSE 0

\* PositionIterInternal::rev_length_hint: cursor + 1.
rev_length_hint(i, len) ==
    IF i.status # "active" THEN 0 ELSE i.position + 1

\* The closure of both __setstate__: `pos.min(obj.__len__())`.
setstate_clamp(len, pos) == Min(pos, len)

\* PositionIterInternal::set_state, called with that closure: an integer that
\* is no valid position counts as 0; an exhausted iterator is left alone.
set_state(i, p, len) ==
    IF i.status # "active" THEN i
    ELSE [i EXCEPT !.position = setstate_clamp(len, IF p < 0 THEN 0 ELSE p)]

\* A closure that reads no further than the container reached when the
\* iterator was created.
vec_get_snapshot(l, pos) == IF pos < Min(Len(l), itLen0) THEN <<l[pos + 1]>> ELSE <<>>

\* A closure that reads the last element when the cursor is beyond the end.
vec_get_clamped(l, pos) ==
    IF l = <<>> THEN <<>> ELSE <<l[Min(pos, Len(l) - 1) + 1]>>

\* The closure of PyListIterator::next and PyListReverseIterator::next:
\* `vec.get(pos).cloned().ok_or(None)`.
vec_get(l, pos) == IF pos < Len(l) THEN <<l[pos + 1]>> ELSE <<>>

\* Iterable::iter, lines 464-471.
list_iter ==
    /\ op = "idle"
    /\ it' = new_iter("fwd", 0)
    /\ itLast' = [ev |-> "new", x |-> 0]
    /\ stopSeen' = FALSE
    /\ itLen0' = Len(elements)
    /\ UNCHANGED <<heap, frame, locks, hist, proto>>

\* __reversed__, lines 199-205: `zelf.__len__().saturating_sub(1)`.
list_reversed ==
    /\ op = "idle"
    /\ it' = new_iter("rev", IF Len(elements) >= 1 THEN Len(elements) - 1 ELSE 0)
    /\ itLast' = [ev |-> "new", x |-> 0]
    /\ stopSeen' = FALSE
    /\ itLen0' = Len(elements)
    /\ UNCHANGED <<heap, frame, locks, hist, proto>>

\* IterNext for PyListIterator and for PyListReverseIterator, lines 570-577
\* and 616-623: a read guard for the time of the closure.
iter_next ==
    /\ op = "idle"
    /\ it.kind # "none"
    /\ LET ret == iter_ret(it, vec_get(elements, it.position))
       IN  /\ it' = iter_step(it, vec_get(elements, it.position))
           /\ itLast' = IF ret = <<>> THEN [ev |-> "stop", x |-> 0]
                                    ELSE [ev |-> "yield", x |-> ret[1]]
           /\ stopSeen' = (stopSeen \/ ret = <<>>)
    /\ UNCHANGED <<heap, frame, locks, hist, itLen0, proto>>

\* __setstate__ of both iterators, lines 553-558 and 599-604.
iter_setstate ==
    /\ op = "idle"
    /\ it.kind # "none"
    /\ \E p \in -1 .. MaxLen + 1 :
          /\ it' = set_state(it, p, Len(elements))
          /\ itLast' = [ev |-> "setstate", x |-> p]
    /\ UNCHANGED <<heap, frame, locks, hist, stopSeen, itLen0, proto>>

\* __length_hint__ of the iterator, lines 548-551 and 594-597.
iter_length_hint ==
    IF it.kind = "rev" THEN rev_length_hint(it, Len(elements))
    ELSE length_hint(it, Len(elements))

\* PyList::insert at position 0 (lines 126-131)
insert_first(l, x) == InsertAt(l, 1, x)

\* PyList::pop with index 0 on a non-empty list
pop_first(l) == RemoveAt(l, 1)

\* What may be done to the container between two calls on an iterator: the
\* mutations at the end, and an insert or a delete in front of the cursor.
IterMutations(l) ==
    Mutations(l)
    \cup {[m |-> "insert", x |-> h] : h \in IF Len(l) < MaxLen THEN Handles ELSE {}}
    \cup (IF l # <<>> THEN {[m |-> "pop_first", x |-> 0]} ELSE {})

ApplyIterMut(l, m) ==
    CASE m.m = "insert" -> insert_first(l, m.x)
      [] m.m = "pop_first" -> pop_first(l)
      [] OTHER -> ApplyMut(l, m)

\* A list method is called between two calls on the iterator.
list_mutate ==
    /\ op = "idle"
    /\ \E m \in IterMutations(elements) : elements' = ApplyIterMut(elements, m)
    /\ itLast' = [ev |-> "mutated", x |-> 0]
    /\ UNCHANGED <<otherList, frame, locks, hist, it, stopSeen, itLen0, proto>>

\* ----------------------------------------------------------- specifications
InitSort == \E l \in SeqsUpTo(MaxLen) : InitWith(l, <<>>)

NextSort ==
    \/ sort_take
    \/ do_sort_key
    \/ do_sort_cmp
    \/ sort_swap
    \/ CallbackMutate
    \/ ThreadMutate
    \/ Return

SpecSort == InitSort /\ [][NextSort]_vars

InitLock == \E l \in SeqsUpTo(MaxLen), o \in SeqsUpTo(MaxOther) : InitWith(l, o)

NextLock ==
    \/ cmp_enter
    \/ cmp_borrow_other
    \/ cmp_elem
    \/ cmp_len
    \/ repr_enter
    \/ repr_borrow
    \/ repr_elem
    \/ repr_end
    \/ CallbackRead
    \/ CallbackMutate
    \/ ThreadMutate
    \/ Return

SpecLock == InitLock /\ [][NextLock]_vars

InitIter == \E l \in SeqsUpTo(MaxLen) : InitWith(l, <<>>)

NextIter ==
    \/ list_iter
    \/ list_reversed
    \/ iter_next
    \/ iter_setstate
    \/ list_mutate

SpecIter == InitIter /\ [][NextIter]_vars

\* remove on every container.
InitRemove == \E l \in SeqsUpTo(MaxLen) : InitWith(l, <<>>)

NextRemove ==
    \/ remove_enter
    \/ remove_scan
    \/ remove_check
    \/ remove_delete
    \/ CallbackMutate
    \/ ThreadMutate
    \/ Return

SpecRemove == InitRemove /\ [][NextRemove]_vars

\* concat of every container with itself and with every second object.
InitConcat == \E l \in SeqsUpTo(MaxLen), o \in SeqsUpTo(MaxOther) : InitWith(l, o)

NextConcat ==
    \/ concat_enter
    \/ concat_other
    \/ ThreadMutate
    \/ Return

SpecConcat == InitConcat /\ [][NextConcat]_vars

\* extend and += of every container with itself and with every second object.
InitExtend == \E l \in SeqsUpTo(MaxLen), o \in SeqsUpTo(MaxOther) : InitWith(l, o)

NextExtend ==
    \/ ext_enter
    \/ ext_pull
    \/ ext_append
    \/ CallbackMutate
    \/ ThreadMutate
    \/ Return

SpecExtend == InitExtend /\ [][NextExtend]_vars

InitProto == \E l \in SeqsUpTo(MaxLen), o \in SeqsUpTo(MaxOperand) : InitWith(l, o)

NextProto ==
    \/ mapping_call
    \/ sequence_call
    \/ table_return

SpecProto == InitProto /\ [][NextProto]_vars

\* Comparison of every container with itself and with every second object.
InitCmp == \E l \in SeqsUpTo(MaxLen), o \in SeqsUpTo(MaxOther) : InitWith(l, o)

NextCmp ==
    \/ cmp_enter
    \/ cmp_borrow_other
    \/ cmp_elem
    \/ cmp_len
    \/ CallbackMutate
    \/ Return

SpecCmp == InitCmp /\ [][NextCmp]_vars

\* pop, and setitem followed by getitem, on every container.
InitIndex == \E l \in SeqsUpTo(MaxLen) : InitWith(l, <<>>)

NextIndex ==
    \/ pop_call
    \/ setitem_call
    \/ getitem_call
    \/ ThreadMutate
    \/ Return

SpecIndex == InitIndex /\ [][NextIndex]_vars

\* The list of n distinct elements 0 .. n-1.
Iota(n) == [i \in 1 .. n |-> i - 1]

\* Slice assignment looks at no element: the containers drawn are the lists
\* of distinct elements of every length, and one assignment is made on each.
InitSlice ==
    \E n \in 0 .. Min(MaxLen, MaxHandle + 1), o \in SeqsUpTo(MaxOperand) :
        InitWith(Iota(n), o)

NextSlice ==
    \/ setslice_enter
    \/ setslice_pull
    \/ setslice_write

SpecSlice == InitSlice /\ [][NextSlice]_vars

\* The whole object: every operation on every container. The specifications
\* above are its restrictions to the operations of one part of list.rs.
Init == \E l \in SeqsUpTo(MaxLen), o \in SeqsUpTo(MaxOther) : InitWith(l, o)

Next ==
    \/ NextSort
    \/ NextLock
    \/ NextIter
    \/ NextRemove
    \/ NextConcat
    \/ NextExtend
    \/ NextProto
    \/ NextIndex
    \/ NextSlice

Spec == Init /\ [][Next]_vars

\* -------------------------------------------------------------- properties
Count(s, h) == Cardinality({i \in 1 .. Len(s) : s[i] = h})
IsPermutation(a, b) ==
    Len(a) = Len(b) /\ \A h \in Elems(a) \cup Elems(b) : Count(a, h) = Count(b, h)

WithKey(s, k, v) == LET T(x) == key_call(k, x) = v IN SelectSeq(s, T)

\* b is a in stably sorted order: no later element precedes an earlier one
\* under the sort's predicate, and the elements of each key keep their order.
IsStableSort(b, a, k, reverse) ==
    /\ Len(b) = Len(a)
    /\ \A i, j \in 1 .. Len(b) :
          i < j => ~cmp(key_call(k, b[i]), key_call(k, b[j]), reverse)
    /\ \A h \in Elems(a) \cup Elems(b) :
          WithKey(b, k, key_call(k, h)) = WithKey(a, k, key_call(k, h))

\* C1: when callbacks appended to the container during a sort whose key calls
\* and comparisons all returned (and nothing removed the additions), sort
\* returns the modified-during-sort ValueError, the container holds exactly
\* the pre-sort elements in stably sorted order, and no appended element is
\* in it.
C1_SortAppendDuringSort ==
    (op = "sort" /\ pc = "done" /\ sres = "Ok" /\ intf.app # {} /\ ~intf.rem)
        => /\ res = "ValueError"
           /\ IsStableSort(elements, pre, arg.key, arg.reverse)
           /\ \A h \in intf.app : Count(elements, h) = Count(pre, h)

C1_Witness ==
    /\ op = "sort" /\ pc = "done" /\ sres = "Ok" /\ ~intf.rem
    /\ arg.key # "none" /\ Len(pre) >= 2 /\ elements # pre
    /\ \E h \in intf.app : h \notin Elems(pre)

\* C5: when do_sort failed (a key call or a comparison raised), sort returns
\* that error, also when the container was added to during the sort; the
\* working buffer (the pre-sort elements, in some order) is back in the
\* container and the additions are gone.
C5_SortErrorFirst ==
    (op = "sort" /\ pc = "done" /\ sres = "UserError")
        => /\ res = "UserError"
           /\ IsPermutation(elements, pre)

C5_Witness ==
    /\ op = "sort" /\ pc = "done" /\ sres = "UserError"
    /\ intf.app # {} /\ buf # <<>> /\ pre # <<>>

\* C2: whenever the running operation is at a call of user code (a key
\* function, an element comparison, an element's repr), it holds no guard of
\* the container's lock.
C2_NoLockAcrossCallback == pc \in CallbackPcs => readers = 0

\* C3: the thread never asks for the container's lock, not even for reading,
\* while it holds a guard of it.
C3_NoReacquire == ~reacquired

\* C4: once a next call of a forward iterator has reported exhaustion, no
\* later next call yields and the length hint is 0, whatever was appended to
\* the container or set as the iterator's state in between.
C4_ExhaustionSticky ==
    (it.kind = "fwd" /\ stopSeen)
        => /\ it.status = "exhausted"
           /\ itLast.ev # "yield"
           /\ iter_length_hint = 0

C4_Witness ==
    /\ it.kind = "fwd" /\ stopSeen /\ itLast.ev = "stop"
    /\ Len(elements) > it.position

\* C8: a reverse iterator just created over a container of length n has
\* length hint n (n = 0 included); just after set_state(p) the hint is p + 1
\* clamped to [0, n].
C8_ReverseLengthHint ==
    (it.kind = "rev" /\ it.status = "active")
        => /\ itLast.ev = "new" => iter_length_hint = Len(elements)
           /\ itLast.ev = "setstate" =>
                 iter_length_hint = Min(IF itLast.x + 1 < 0 THEN 0 ELSE itLast.x + 1,
                                        Len(elements))

\* The first position of l whose element equals v, 0 when there is none.
FirstEqual(l, v) ==
    IF \E i \in 1 .. Len(l) : Equal(l[i], v)
    THEN CHOOSE i \in 1 .. Len(l) :
            Equal(l[i], v) /\ \A j \in 1 .. i - 1 : ~Equal(l[j], v)
    ELSE 0

\* C6: a remove(v) during which nothing else touched the container and no
\* __eq__ raised: when an element equals v, exactly the first such element is
\* gone (one element fewer, the others in their order); when none does,
\* remove fails with the ValueError and the container is as it was.
C6_RemoveFirstEqual ==
    (op = "remove" /\ pc = "done" /\ intf.n = 0 /\ res # "UserError")
        => IF FirstEqual(pre, arg.needle) # 0
           THEN /\ res = "Ok"
                /\ Len(elements) = Len(pre) - 1
                /\ elements = RemoveAt(pre, FirstEqual(pre, arg.needle))
           ELSE /\ res = "ValueError"
                /\ elements = pre

C6_Witness ==
    /\ op = "remove" /\ pc = "done" /\ intf.n = 0 /\ res = "Ok"
    /\ FirstEqual(pre, arg.needle) = 2
    /\ Len(pre) = 3 /\ Equal(pre[3], arg.needle)
    /\ elements # Front(pre)

\* C7: a concat during which nothing else touched the operands leaves both
\* as they were; with an operand that is no list it fails with the
\* TypeError, with a list (the container itself included) it returns self's
\* elements followed by other's.
C7_ConcatFrame ==
    (op = "concat" /\ pc = "done" /\ intf.n = 0)
        => /\ elements = pre
           /\ otherList = preOther
           /\ IF arg.other \in {"self", "list"}
              THEN /\ res = "Ok"
                   /\ out = pre \o (IF arg.other = "self" THEN pre ELSE preOther)
              ELSE res = "TypeError"

C7_Witness ==
    /\ op = "concat" /\ pc = "done" /\ intf.n = 0
    /\ arg.other = "self" /\ res = "Ok" /\ Len(pre) >= 2 /\ Len(out) = 2 * Len(pre)

\* C10: extend and += append the materialized source in one step: after a
\* successful call the materialized elements are the tail of the container,
\* in order, whatever other threads did meanwhile; when nothing else touched
\* the container, a failed materialization leaves it as it was, a successful
\* one leaves the old contents followed by the source's elements, and
\* extending the container with itself doubles it.
C10_ExtendAllOrNothing ==
    (op \in {"extend", "iadd"} /\ pc = "done")
        => /\ res = "Ok" =>
                /\ Len(elements) >= Len(buf)
                /\ SubSeq(elements, Len(elements) - Len(buf) + 1, Len(elements)) = buf
                /\ buf = (IF arg.other = "self" /\ intf.n = 0 THEN pre
                          ELSE IF arg.other = "self" THEN buf ELSE preOther)
           /\ (res # "Ok" /\ intf.n = 0) => elements = pre
           /\ (res = "Ok" /\ intf.n = 0) =>
                elements = pre \o (IF arg.other = "self" THEN pre ELSE preOther)

C10_Witness ==
    /\ op \in {"extend", "iadd"} /\ pc = "done"
    /\ arg.other = "iter" /\ res = "UserError" /\ intf.n = 0 /\ Len(buf) >= 1

\* C9: every entry of the mapping table and of the sequence table gives the
\* result (value or error kind) and leaves the container as the named method
\* it stands for does on the same container and arguments; a present value
\* assigns, an absent one deletes, and concat through the table rejects an
\* operand that is no list with the TypeError of __add__.
C9_TablesMatchNamedMethods ==
    /\ tblOut = namedOut
    /\ (tblOut.table = "sequence" /\ tblOut.entry = "concat"
            /\ tblOut.args.other \notin {"self", "list"})
          => tblOut.r.res = "TypeError"

C9_Witness ==
    /\ tblOut.table = "mapping" /\ tblOut.entry = "ass_subscript"
    /\ tblOut.args.value = <<>> /\ tblOut.r.res = "Ok"
    /\ Len(elements) = Len(pre) - 1 /\ Len(pre) = MaxLen

\* C12: after a successful sort the container holds the pre-sort elements
\* (the objects, not their keys), ordered by key ascending, or descending
\* when reverse is set, and in both directions two elements with equal keys
\* are in their pre-sort order.
C12_SortStableBothWays ==
    (op = "sort" /\ pc = "done" /\ res = "Ok")
        => /\ IsPermutation(elements, pre)
           /\ \A i, j \in 1 .. Len(elements) :
                 i < j => IF arg.reverse
                          THEN key_call(arg.key, elements[i]) >= key_call(arg.key, elements[j])
                          ELSE key_call(arg.key, elements[i]) <= key_call(arg.key, elements[j])
           /\ \A h \in Elems(pre) :
                 WithKey(elements, arg.key, key_call(arg.key, h))
                     = WithKey(pre, arg.key, key_call(arg.key, h))

C12_Witness ==
    /\ op = "sort" /\ pc = "done" /\ res = "Ok"
    /\ arg.reverse /\ arg.key = "mod" /\ Len(pre) = 3 /\ elements # pre
    /\ \E i, j \in 1 .. Len(pre) :
          i < j /\ pre[i] # pre[j] /\ key_call(arg.key, pre[i]) = key_call(arg.key, pre[j])

\* The sort has taken the contents and has not swapped them back yet.
InSortWindow == op = "sort" /\ pc \in {"do_sort_key", "do_sort_cmp", "sort_swap"}

\* C16: between the take and the swap-back the container holds the
\* placeholder: it is empty until somebody mutates it and holds nothing but
\* what was appended since; a mutation in the window leaves the working
\* buffer (and the keys computed from it) as it was.
C16_SortWindowPlaceholder ==
    /\ [](InSortWindow => /\ intf.n = 0 => elements = <<>>
                           /\ Elems(elements) \subseteq intf.app
                           /\ Len(elements) <= intf.n)
    /\ [][(InSortWindow /\ elements' # elements /\ pc' = pc)
               => (buf' = buf /\ keys' = keys)]_vars

C16_Witness ==
    /\ InSortWindow /\ pc = "do_sort_cmp"
    /\ elements # <<>> /\ buf = pre /\ Len(pre) >= 2 /\ intf.n > 0

\* C18: a sort whose callbacks all returned fails with the ValueError
\* exactly when the placeholder was non-empty at the swap-back; mutations
\* that left it empty go unnoticed and the sorted elements are installed.
C18_SortDetectsLeftoverOnly ==
    (op = "sort" /\ pc = "done" /\ sres = "Ok")
        => /\ res \in {"Ok", "ValueError"}
           /\ res = "ValueError" <=> buf # <<>>
           /\ elements = do_sort(pre, arg.key, arg.reverse)

C18_Witness ==
    /\ op = "sort" /\ pc = "done" /\ sres = "Ok" /\ res = "Ok"
    /\ intf.n > 0 /\ intf.app # {} /\ Len(pre) >= 2

\* C19: a sort with a key function in which a key call or a comparison of
\* keys raised leaves the pre-sort elements in their pre-sort order.
C19_KeyedSortErrorKeepsOrder ==
    (op = "sort" /\ pc = "done" /\ sres = "UserError" /\ arg.key # "none")
        => /\ res = "UserError"
           /\ elements = pre

C19_Witness ==
    /\ op = "sort" /\ pc = "done" /\ sres = "UserError" /\ arg.key # "none"
    /\ Len(keys) = Len(pre) /\ Len(pre) >= 2
    /\ do_sort(pre, arg.key, arg.reverse) # pre

\* C20: a remove whose scan matched a position returns success, whatever
\* happened to the container since: it deleted at a position below the
\* current length, or found the position gone and deleted nothing.
C20_RemoveRecheck ==
    (op = "remove" /\ pc = "done" /\ res \notin {"ValueError", "UserError"})
        => res = "Ok"

\* The positions at which a and b both have an element and these differ.
Differing(a, b) == {i \in 1 .. Min(Len(a), Len(b)) : Val(a[i]) # Val(b[i])}

\* The lexicographic order of a and b under operator o: the first differing
\* position decides; without one the shorter list is the smaller.
Lexicographic(o, a, b) ==
    IF Differing(a, b) # {}
    THEN LET k == CHOOSE i \in Differing(a, b) : \A j \in Differing(a, b) : i <= j
         IN  eval_ord(o, Val(a[k]), Val(b[k]))
    ELSE eval_ord(o, Len(a), Len(b))

\* C14: a comparison in which no element comparison raised: with an operand
\* that is no list the answer is not-implemented; with the list itself and
\* == or != the answer is given without touching the elements (no guard is
\* asked for); otherwise the answer is the lexicographic order of the two
\* lists under the operator.
C14_CmpLexicographic ==
    (op = "cmp" /\ pc = "done" /\ res # "UserError")
        => IF arg.other \notin {"self", "list"}
           THEN res = "NotImplemented" /\ out = <<>>
           ELSE /\ res = "Ok"
                /\ out = <<Lexicographic(arg.cmpop, pre,
                                         IF arg.other = "self" THEN pre ELSE preOther)>>
                /\ (arg.other = "self" /\ arg.cmpop \in {"Eq", "Ne"})
                      => (idx = 0 /\ ~reacquired /\ out = <<arg.cmpop = "Eq">>)

C14_Witness ==
    /\ op = "cmp" /\ pc = "done" /\ res = "Ok" /\ arg.other = "list"
    /\ arg.cmpop = "Lt" /\ out = <<TRUE>>
    /\ Len(pre) = 1 /\ Len(preOther) = 2 /\ pre[1] # preOther[1]
    /\ Differing(pre, preOther) = {}

\* C17: a next call on an active forward iterator looks at the container as
\* it is now: with the cursor below the current length it yields the element
\* stored there now and moves the cursor on by one; otherwise it reports
\* exhaustion.
C17_ForwardIterReadsCurrent ==
    [][(it.kind = "fwd" /\ it.status = "active"
            /\ itLast'.ev \in {"yield", "stop"} /\ it' # it)
          => IF it.position < Len(elements)
             THEN /\ itLast' = [ev |-> "yield", x |-> elements[it.position + 1]]
                  /\ it' = [it EXCEPT !.position = it.position + 1]
             ELSE /\ itLast'.ev = "stop"
                  /\ it' = [it EXCEPT !.status = "exhausted"]]_vars

C17_Witness ==
    /\ it.kind = "fwd" /\ it.status = "active" /\ itLast.ev = "yield"
    /\ it.position > itLen0 /\ itLen0 >= 1
    /\ it.position <= Len(elements) /\ elements[it.position] = itLast.x

\* The position an index i addresses in a list of length n (from 0), or -1.
Normalized(i, n) ==
    LET k == IF i < 0 THEN i + n ELSE i
    IN  IF 0 <= k /\ k < n THEN k ELSE -1

\* C13: pop(i), i = -1 when absent: with the normalized index inside the
\* list the element there is returned and removed, the others keep their
\* order and the length drops by 1; on an empty list or with the index
\* outside, pop fails with the IndexError and the list is as it was.
C13_PopNormalizedIndex ==
    (op = "pop" /\ pc = "done")
        => LET k == Normalized(IF arg.index = <<>> THEN -1 ELSE arg.index[1], Len(pre))
           IN  IF k >= 0
               THEN /\ res = "Ok"
                    /\ out = <<pre[k + 1]>>
                    /\ Len(elements) = Len(pre) - 1
                    /\ elements = RemoveAt(pre, k + 1)
               ELSE /\ res = "IndexError"
                    /\ elements = pre

C13_Witness ==
    /\ op = "pop" /\ pc = "done" /\ res = "Ok"
    /\ arg.index = <<>> /\ Len(pre) = 3 /\ pre[3] # pre[2]
    /\ out = <<pre[3]>> /\ elements = Front(pre)

\* C15: setitem(i, v) followed by getitem(i), nothing else touching the list
\* in between: with i a valid index (a negative one counted from the end)
\* getitem returns v, the length is the same and every other position holds
\* what it held; otherwise setitem fails with the IndexError and the list
\* is as it was.
C15_SetThenGet ==
    (op = "setitem" /\ pc = "done" /\ intf.n = 0)
        => LET k == Normalized(arg.index[1], Len(pre))
           IN  IF k >= 0
               THEN /\ sres = "Ok" /\ res = "Ok"
                    /\ out = <<arg.needle>>
                    /\ Len(elements) = Len(pre)
                    /\ \A j \in 1 .. Len(pre) : j # k + 1 => elements[j] = pre[j]
               ELSE /\ sres = "IndexError"
                    /\ elements = pre

C15_Witness ==
    /\ op = "setitem" /\ pc = "done" /\ intf.n = 0 /\ sres = "Ok"
    /\ arg.index = <<-2>> /\ Len(pre) = 3 /\ pre[2] # arg.needle
    /\ elements = [pre EXCEPT ![2] = arg.needle]

\* C11: a slice assignment during which nothing else touched the list. When
\* the materialization of the values raised, the list is as it was. With
\* step 1 the addressed span is replaced by the values and the length is
\* len - span + len(values). With another step the assignment succeeds only
\* when as many positions are addressed as there are values, each position
\* then holding its value and every other one what it held; otherwise it
\* fails with the ValueError and the list is as it was.
C11_SliceAssignAllOrNothing ==
    (op = "setitem_slice" /\ pc = "done" /\ intf.n = 0)
        => LET a == adjust_indices(arg.slice, Len(pre))
               P == slice_positions(arg.slice, Len(pre))
               values == IF arg.other = "self" THEN pre ELSE buf
           IN  IF res = "UserError" THEN elements = pre
               ELSE IF a.step = 1
               THEN /\ res = "Ok"
                    /\ Len(elements) = Len(pre) - Len(P) + Len(values)
                    /\ SubSeq(elements, 1, a.start) = SubSeq(pre, 1, a.start)
                    /\ SubSeq(elements, a.start + 1, a.start + Len(values)) = values
                    /\ SubSeq(elements, a.start + Len(values) + 1, Len(elements))
                          = SubSeq(pre, a.start + Len(P) + 1, Len(pre))
               ELSE IF Len(P) = Len(values)
               THEN /\ res = "Ok"
                    /\ Len(elements) = Len(pre)
                    /\ \A k \in 1 .. Len(P) : elements[P[k] + 1] = values[k]
                    /\ \A j \in 1 .. Len(pre) :
                          (\A k \in 1 .. Len(P) : P[k] + 1 # j) => elements[j] = pre[j]
               ELSE /\ res = "ValueError"
                    /\ elements = pre

C11_Witness ==
    /\ op = "setitem_slice" /\ pc = "done" /\ intf.n = 0
    /\ res = "ValueError" /\ elements = pre /\ Len(pre) = 3
    /\ arg.slice.step = <<2>> /\ Len(slice_positions(arg.slice, Len(pre))) = 2
    /\ Len(buf) = 1

\* C21: a next call on an active reverse iterator whose cursor is at or beyond
\* the container's current length reports exhaustion and leaves the cursor
\* where it is, whatever lies at lower positions; once a next call of a
\* reverse iterator has reported exhaustion the iterator is exhausted and no
\* later next call yields, whatever is done to the container or set as the
\* iterator's state in between.
C21_ReverseIterExhaustsBeyondLength ==
    /\ []((it.kind = "rev" /\ stopSeen)
            => (it.status = "exhausted" /\ itLast.ev # "yield"))
    /\ [][(it.kind = "rev" /\ it.status = "active"
             /\ itLast'.ev \in {"yield", "stop"} /\ it' # it
             /\ it.position >= Len(elements))
           => /\ itLast'.ev = "stop"
              /\ stopSeen'
              /\ it' = [it EXCEPT !.status = "exhausted"]]_vars

\* A reverse iterator created over at least two elements, still at its first
\* cursor, reports exhaustion again although the container, shortened below
\* the cursor before, now reaches beyond it.
C21_Witness ==
    /\ it.kind = "rev" /\ stopSeen /\ itLast.ev = "stop"
    /\ itLen0 >= 2 /\ it.position = itLen0 - 1
    /\ it.position < Len(elements)

=============================================================================
